---------------------------- MODULE Spec2Model ----------------------------
(***************************************************************************)
(* BLAKE3 on FPGA (itzmeanjan/blake3-fpga): the host function hash, its    *)
(* two single_task kernels (orchestrator and compressor) and the three     *)
(* FIFO pipes between them, modelled from src/include/blake3.hpp.          *)
(*                                                                         *)
(* A 32-bit word is the pair <<hi, lo>> of its 16-bit halves, because the  *)
(* model checker's integers are 32-bit signed; every operation below keeps *)
(* the full 32-bit width.                                                  *)
(***************************************************************************)
EXTENDS Integers, Sequences, FiniteSets, TLC

(***************************************************************************)
(* 32-bit words                                                            *)
(***************************************************************************)
HALF == 256 * 256

RECURSIVE XorBits(_, _, _)
XorBits(a, b, n) ==
  IF n = 0 THEN 0
  ELSE ((a + b) % 2) + 2 * XorBits(a \div 2, b \div 2, n - 1)

\* byte-wise exclusive-or table, computed once
XorTab == [a \in 0..255 |-> [b \in 0..255 |-> XorBits(a, b, 8)]]

Xor16(a, b) ==
  XorTab[a \div 256][b \div 256] * 256 + XorTab[a % 256][b % 256]

\* uint32_t ^ uint32_t
WXor(x, y) == <<Xor16(x[1], y[1]), Xor16(x[2], y[2])>>

\* uint32_t + uint32_t, wrapping modulo 2^32
WAdd(x, y) ==
  LET lo == x[2] + y[2]
      hi == x[1] + y[1] + (lo \div HALF)
  IN  <<hi % HALF, lo % HALF>>

Pow2(n) == CASE n = 0 -> 1 [] n = 1 -> 2 [] n = 2 -> 4 [] n = 3 -> 8
             [] n = 4 -> 16 [] n = 5 -> 32 [] n = 6 -> 64 [] n = 7 -> 128
             [] n = 8 -> 256 [] n = 9 -> 512 [] n = 10 -> 1024
             [] n = 11 -> 2048 [] n = 12 -> 4096 [] n = 13 -> 8192
             [] n = 14 -> 16384 [] n = 15 -> 32768 [] n = 16 -> 65536

\* a slip: a left shift, the bits moved out at the top are lost
WRotl_NoWrap(x, n) ==
  LET s  == IF n >= 16 THEN <<x[2], x[1]>> ELSE x
      m  == IF n >= 16 THEN n - 16 ELSE n
      up == Pow2(m)
      dn == Pow2(16 - m)
  IN  <<((s[1] * up) % HALF) + (s[2] \div dn),
        (s[2] * up) % HALF>>

\* sycl::rotate(x, n): rotate the 32-bit word left by n bits, 0 <= n < 32
WRotl(x, n) ==
  LET s  == IF n >= 16 THEN <<x[2], x[1]>> ELSE x
      m  == IF n >= 16 THEN n - 16 ELSE n
      up == Pow2(m)
      dn == Pow2(16 - m)
  IN  <<((s[1] * up) % HALF) + (s[2] \div dn),
        ((s[2] * up) % HALF) + (s[1] \div dn)>>

\* the word with value hi * 2^16 + lo
W(hi, lo) == <<hi, lo>>
\* a word below 2^16
W16(n) == <<0, n>>

(***************************************************************************)
(* BLAKE3 constants                                                        *)
(***************************************************************************)
\* 0-based indices, as in the source
MSG_PERMUTATION == <<2, 6, 3, 10, 7, 0, 4, 13, 1, 11, 12, 5, 9, 14, 15, 8>>

IV == << W(27145, 58983), W(47975, 44677), W(15470, 62322), W(42319, 62778),
         W(20750, 21119), W(39685, 26764), W(8067, 55723), W(23520, 52505) >>

CHUNK_LEN == 1024
OUT_LEN == 32
BLOCK_LEN == 64
ROUNDS == 7

CHUNK_START == 1
CHUNK_END == 2
PARENT == 4
ROOT == 8

rrot_16 == 16
rrot_12 == 20
rrot_8 == 24
rrot_7 == 25

(***************************************************************************)
(* sycl::uint4 arithmetic: a vector is a 4-tuple of words (x, y, z, w)     *)
(***************************************************************************)
VAdd(a, b) == <<WAdd(a[1], b[1]), WAdd(a[2], b[2]), WAdd(a[3], b[3]), WAdd(a[4], b[4])>>
VXor(a, b) == <<WXor(a[1], b[1]), WXor(a[2], b[2]), WXor(a[3], b[3]), WXor(a[4], b[4])>>
VRot(a, n) == <<WRotl(a[1], n), WRotl(a[2], n), WRotl(a[3], n), WRotl(a[4], n)>>
yzwx(a) == <<a[2], a[3], a[4], a[1]>>
zwxy(a) == <<a[3], a[4], a[1], a[2]>>
wxyz(a) == <<a[4], a[1], a[2], a[3]>>

\* column-wise or diagonal mixing of the four rows with message vectors p, q
\* (blake3.hpp lines 69-76 and 84-91, the same eight statements)
Mix(s, p, q) ==
  LET a1 == VAdd(VAdd(s[1], s[2]), p)
      d1 == VRot(VXor(s[4], a1), rrot_16)
      c1 == VAdd(s[3], d1)
      b1 == VRot(VXor(s[2], c1), rrot_12)
      a2 == VAdd(VAdd(a1, b1), q)
      d2 == VRot(VXor(d1, a2), rrot_8)
      c2 == VAdd(c1, d2)
      b2 == VRot(VXor(b1, c2), rrot_7)
  IN  <<a2, b2, c2, d2>>

\* diagonalize / un-diagonalize the rows of the state
Diag(s) == <<s[1], yzwx(s[2]), zwxy(s[3]), wxyz(s[4])>>

\* a slip: the rows are rotated the same way again instead of back
UnDiag_AsDiag(s) == Diag(s)

UnDiag(s) == <<s[1], wxyz(s[2]), zwxy(s[3]), yzwx(s[4])>>

\* rnd(state, msg): state is 4 rows of 4 words, msg is 16 words (1-based).
\* (CHOOSE over a singleton set only fixes the order of evaluation.)
rnd(state, msg) ==
  LET mx == <<msg[1], msg[3], msg[5], msg[7]>>
      my == <<msg[2], msg[4], msg[6], msg[8]>>
      mz == <<msg[9], msg[11], msg[13], msg[15]>>
      mw == <<msg[10], msg[12], msg[14], msg[16]>>
  IN  CHOOSE r \in { UnDiag(d) :
                     d \in { Mix(Diag(c), mz, mw) :
                             c \in { Mix(state, mx, my) } } } : TRUE

\* a slip in the direction: permuted[MSG_PERMUTATION[i]] = msg_words[i]
permute_Scatter(msg) ==
  [k \in 1..16 |-> msg[CHOOSE i \in 1..16 : MSG_PERMUTATION[i] + 1 = k]]

\* permute(msg_words): permuted[i] = msg_words[MSG_PERMUTATION[i]]
permute(msg) ==
  LET permuted(i) == msg[MSG_PERMUTATION[i] + 1]
  IN  << permuted(1), permuted(2), permuted(3), permuted(4),
         permuted(5), permuted(6), permuted(7), permuted(8),
         permuted(9), permuted(10), permuted(11), permuted(12),
         permuted(13), permuted(14), permuted(15), permuted(16) >>

\* one round of mixing followed by the permutation of the message words
RoundPermute(p) == <<rnd(p[1], p[2]), permute(p[2])>>

\* the state and message after n rounds, a permutation after each
RECURSIVE Rounds(_, _, _)
Rounds(state, msg, n) ==
  IF n = 0 THEN <<state, msg>>
  ELSE CHOOSE r \in { RoundPermute(p) : p \in { Rounds(state, msg, n - 1) } } : TRUE

\* the output chaining value is kept on the first two rows of the state
Fold(s) == <<VXor(s[1], s[3]), VXor(s[2], s[4]), s[3], s[4]>>

\* a slip in the count: the seventh round is left out
compress_SixRounds(state, msg) ==
  CHOOSE r \in { <<Fold(p[1]), p[2]>> :
                 p \in { Rounds(state, msg, ROUNDS - 1) } } : TRUE

\* compress(state, msg_words): the pair <<state, msg_words>> it leaves
\* behind; six rounds each followed by a permutation, the seventh round, then
\* the fold
compress(state, msg) ==
  CHOOSE r \in { <<Fold(rnd(p[1], p[2])), p[2]>> :
                 p \in { Rounds(state, msg, ROUNDS - 1) } } : TRUE

(***************************************************************************)
(* Word codec                                                              *)
(***************************************************************************)
\* word_from_le_bytes(input): b is the 4 bytes input[0..3] (1-based here)
word_from_le_bytes(b) == <<b[4] * 256 + b[3], b[2] * 256 + b[1]>>

\* a slip in the byte order: the most significant byte first
word_to_le_bytes_BigEndian(w) ==
  <<w[1] \div 256, w[1] % 256, w[2] \div 256, w[2] % 256>>

\* word_to_le_bytes(word, output): output[i] = (word >> 8i) & 0xff
word_to_le_bytes(w) ==
  <<w[2] % 256, w[2] \div 256, w[1] % 256, w[1] \div 256>>

\* words_to_le_bytes(msg_words, output): 8 words to 32 bytes
words_to_le_bytes(ws) ==
  [n \in 1..32 |-> word_to_le_bytes(ws[((n - 1) \div 4) + 1])[((n - 1) % 4) + 1]]

RECURSIVE bin_log(_)
bin_log(n) == IF n > 1 THEN 1 + bin_log(n \div 2) ELSE 0

(***************************************************************************)
(* Bounds of the model                                                     *)
(***************************************************************************)
\* hash asserts chunk_count >= (1 << 10) (blake3.hpp line 252), and the test
\* calls it with chunk_count = 1 << 10 (test/main.cpp line 27); the model
\* makes the same three assertions with the smaller minimum
\* 1 << MinChunkLog, so that a whole run of the two kernels can be explored
MinChunkLog == 1
\* rnd and permute, taken alone, are each applied up to MaxApply times to
\* every seed
MaxApply == 3
\* an arbitrary caller passes chunk_count in 1..MaxChunkCount
MaxChunkCount == 3
\* the benchmark calls hash itr_cnt times on the same input; the model stops
\* after MaxIter calls
MaxIter == 2

(***************************************************************************)
(* Sizes fixed by the source                                               *)
(***************************************************************************)
BLOCKS_PER_CHUNK == 16
MSG_WORDS == 16
CV_WORDS == 8
ROW_WORDS == 4
I_PIPE0_CAP == 16
I_PIPE1_CAP == 16
O_PIPE0_CAP == 8

VARIABLES
  NDEBUG,        \* the build: TRUE when the asserts are compiled out
  hostPc,        \* where hash is: entry, alloc, submit0, submit1, wait, done,
                 \* aborted (an assert failed), crashed (a kernel faulted)
  input,         \* the input bytes (device memory), 1-based
  i_size,        \* hash's argument i_size
  chunk_count,   \* hash's argument chunk_count
  digest,        \* the 32 bytes of the digest buffer
  memSt,         \* the scratch pointer mem: none, ok, null, freed
  mem,           \* the scratch words, 8 per chunk, 1-based
  oPc,           \* orchestrator kernel: idle, chunk, load, wstate, wmsg, rcv,
                 \* store, halt, fault
  o_i, o_j, o_k, \* its loop counters i, j and the position in a pipe sequence
  cv0, msg,      \* its private arrays cv0[8] and msg[16]
  mem_idx,       \* its register mem_idx
  cPc,           \* compressor kernel: idle, rstate, rmsg, compress, wcv, halt
  rounds,        \* its register rounds, the number of compressions to make
  c_i, c_k,      \* its loop counter i and the position in a pipe sequence
  abcd,          \* its locals a, b, c, d
  state, c_msg,  \* its private arrays state[4] and msg[16]
  i_pipe0, i_pipe1, o_pipe0,   \* the words in flight in each pipe
  hist0,         \* history: every word written to i_pipe0, in order
  hist1,         \* history: every word written to i_pipe1, in order
  histRead,      \* history: every word the orchestrator read from o_pipe0
  compLog,       \* history: the (state, msg) pairs handed to compress
  digestWrites,  \* history: the number of stores to the digest buffer
  digest0,       \* history: the digest buffer as the caller passed it
  histOut,       \* history: every word written to o_pipe0, in order
  memLog,        \* history: the stores to the scratch memory, in order, each
                 \* <<slot, number of words written to i_pipe0 before it>>
  iter,          \* the benchmark's loop counter
  prevDigest     \* history: the digest buffer as the previous benchmark
                 \* iteration left it

hostVars == <<NDEBUG, hostPc, input, i_size, chunk_count, digest, memSt>>
orchVars == <<oPc, o_i, o_j, o_k, cv0, msg, mem_idx>>
compVars == <<cPc, rounds, c_i, c_k, abcd, state, c_msg>>
pipeVars == <<i_pipe0, i_pipe1, o_pipe0>>
histVars == <<hist0, hist1, histRead, compLog, digestWrites, digest0,
              histOut, memLog, iter, prevDigest>>
vars == <<hostVars, mem, orchVars, compVars, pipeVars, histVars>>

ZeroWord == W16(0)
Words(n) == [x \in 1..n |-> ZeroWord]

\* byte k (0-based) of the caller's input under fill pattern p: pattern 0 is
\* memset(i_h, 0xff, i_size); the others differ from byte to byte, from block
\* to block and from chunk to chunk
InputByte(p, k) ==
  IF p = 0 THEN 255
  ELSE (k * p + 3 * (k \div BLOCK_LEN) + 7 * (k \div CHUNK_LEN)) % 256

InputOf(p, size) == [k \in 1..size |-> InputByte(p, k - 1)]

Patterns == {0, 1}

MinChunkCount == Pow2(MinChunkLog)

\* the (chunk_count, i_size) pairs an arbitrary caller passes: the sizes that
\* match, and one that is not a multiple of CHUNK_LEN
Calls ==
  { <<c, c * CHUNK_LEN>> : c \in 1..MaxChunkCount }
    \cup { <<MinChunkCount, MinChunkCount * CHUNK_LEN + 1>> }

\* test/main.cpp lines 27, 44: chunk_count = 1 << 10, the minimum, and
\* i_size = chunk_count * CHUNK_LEN
TestCalls == { <<MinChunkCount, MinChunkCount * CHUNK_LEN>> }

\* the digest buffer comes from sycl::malloc_device and is not initialised:
\* it holds one of these byte fills at the call
DigestFills == {0, 170}
DigestOf(f) == [n \in 1..OUT_LEN |-> f]

IsPow2(n) == \E e \in 0..16 : n = Pow2(e)

\* the three asserts at the entry of hash
AssertSize == i_size = chunk_count * CHUNK_LEN
AssertMin == chunk_count >= MinChunkCount
AssertPow2 == IsPow2(chunk_count)
AssertsHold == AssertSize /\ AssertMin /\ AssertPow2

KernelsIdle ==
  /\ oPc = "idle" /\ o_i = 0 /\ o_j = 0 /\ o_k = 0
  /\ cv0 = Words(CV_WORDS) /\ msg = Words(MSG_WORDS) /\ mem_idx = 0
  /\ cPc = "idle" /\ rounds = 0 /\ c_i = 0 /\ c_k = 0
  /\ abcd = Words(ROW_WORDS)
  /\ state = [r \in 1..4 |-> Words(ROW_WORDS)]
  /\ c_msg = Words(MSG_WORDS)
  /\ i_pipe0 = <<>> /\ i_pipe1 = <<>> /\ o_pipe0 = <<>>

InitWith(builds, callSet, patterns, fills) ==
  /\ NDEBUG \in builds
  /\ hostPc = "entry"
  /\ \E call \in callSet, p \in patterns :
       /\ chunk_count = call[1]
       /\ i_size = call[2]
       /\ input = InputOf(p, call[2])
  /\ digest \in { DigestOf(f) : f \in fills }
  /\ digest0 = digest
  /\ memSt = "none" /\ mem = <<>>
  /\ KernelsIdle
  /\ hist0 = <<>> /\ compLog = <<>> /\ digestWrites = 0
  /\ histOut = <<>> /\ memLog = <<>>
  /\ hist1 = <<>> /\ histRead = <<>>
  /\ iter = 0 /\ prevDigest = <<>>

\* an arbitrary caller and build, one call; the input is filled as both
\* callers of the repository fill it
Init == InitWith(BOOLEAN, Calls, {0}, DigestFills)

\* the test program (test/main.cpp): it checks the digest with assert, so it
\* is built with the asserts on
InitTest == InitWith({FALSE}, TestCalls, Patterns, {170})

\* the benchmark (utils.hpp, avg_kernel_exec_tm): the input is
\* memset(i_h, 0xff, i_size) and chunk_count a power of two from the minimum
InitBench ==
  InitWith({FALSE}, { <<MinChunkCount, MinChunkCount * CHUNK_LEN>> }, {0}, {0})

\* the benchmark's second input size (benchmark/main.cpp line 43, chunk
\* counts 1 << 10, 1 << 11, ...): twice the minimum, so that the merkle tree
\* has a level between the leaves and the root
InitTree ==
  InitWith({FALSE}, { <<2 * MinChunkCount, 2 * MinChunkCount * CHUNK_LEN>> },
           {0}, {170})

(***************************************************************************)
(* hash, host side                                                         *)
(***************************************************************************)
\* lines 250-253: the asserts; an assert that fails aborts the process
HostAssert ==
  /\ hostPc = "entry"
  /\ hostPc' = IF NDEBUG \/ AssertsHold THEN "alloc" ELSE "aborted"
  /\ UNCHANGED <<NDEBUG, input, i_size, chunk_count, digest, memSt, mem,
                 orchVars, compVars, pipeVars, histVars>>

\* lines 255-256: sycl::malloc_device returns the scratch memory or nullptr;
\* the kernels never read a scratch word before they have written it, so the
\* words the fresh memory holds are left out of the picture (all 0)
HostAlloc ==
  /\ hostPc = "alloc"
  /\ \E got \in BOOLEAN :
       IF got THEN memSt' = "ok" /\ mem' = Words(CV_WORDS * chunk_count)
              ELSE memSt' = "null" /\ mem' = <<>>
  /\ hostPc' = "submit0"
  /\ UNCHANGED <<NDEBUG, input, i_size, chunk_count, digest,
                 orchVars, compVars, pipeVars, histVars>>

\* line 258: q.single_task<kernelBlake3Orchestrator>
HostSubmitOrchestrator ==
  /\ hostPc = "submit0"
  /\ hostPc' = "submit1"
  /\ oPc' = "chunk"
  /\ UNCHANGED <<NDEBUG, input, i_size, chunk_count, digest, memSt, mem,
                 o_i, o_j, o_k, cv0, msg, mem_idx,
                 compVars, pipeVars, histVars>>

\* a slip: the compressor also counts the chunk_count - 1 compressions of the
\* merkle tree, which the orchestrator does not request
CompRounds_WithTree == chunk_count * 16 + (chunk_count - 1)

\* lines 665-666: rounds = (chunk_count << 4)
CompRounds == chunk_count * 16

\* line 662: q.single_task<kernelBlake3Compressor>; the kernel sets rounds
\* and enters its loop (line 675)
HostSubmitCompressor ==
  /\ hostPc = "submit1"
  /\ hostPc' = "wait"
  /\ rounds' = CompRounds
  /\ cPc' = IF 0 < CompRounds THEN "rstate" ELSE "halt"
  /\ UNCHANGED <<NDEBUG, input, i_size, chunk_count, digest, memSt, mem,
                 c_i, c_k, abcd, state, c_msg,
                 orchVars, pipeVars, histVars>>

\* a slip: the scratch memory is freed without the barrier on the kernels
HostWaitFree_NoBarrier ==
  /\ hostPc = "wait"
  /\ hostPc' = "done"
  /\ memSt' = IF memSt = "ok" THEN "freed" ELSE memSt
  /\ mem' = <<>>
  /\ UNCHANGED <<NDEBUG, input, i_size, chunk_count, digest,
                 orchVars, compVars, pipeVars, histVars>>

\* lines 741-742: the barrier on both kernel events returns, then
\* sycl::free(mem, q)
HostWaitFree ==
  /\ hostPc = "wait"
  /\ oPc = "halt" /\ cPc = "halt"
  /\ hostPc' = "done"
  /\ memSt' = IF memSt = "ok" THEN "freed" ELSE memSt
  /\ mem' = <<>>
  /\ UNCHANGED <<NDEBUG, input, i_size, chunk_count, digest,
                 orchVars, compVars, pipeVars, histVars>>

\* a kernel that faulted ends the run: the wait never returns normally
HostCrash ==
  /\ hostPc = "wait"
  /\ oPc = "fault"
  /\ hostPc' = "crashed"
  /\ UNCHANGED <<NDEBUG, input, i_size, chunk_count, digest, memSt, mem,
                 orchVars, compVars, pipeVars, histVars>>

(***************************************************************************)
(* kernelBlake3Orchestrator                                                *)
(***************************************************************************)
\* a slip: the low counter word is left 0 for every chunk
CounterLow_Zero(n) == W16(0)

\* static_cast<uint32_t>(chunk_id0 & 0xffffffff)
CounterLow(n) == W((n \div HALF) % HALF, n % HALF)
\* static_cast<uint32_t>(chunk_id0 >> 32)
CounterHigh(n) ==
  W((((n \div HALF) \div HALF) \div HALF) % HALF, ((n \div HALF) \div HALF) % HALF)

\* a slip in the last-block test: no block ever carries CHUNK_END
ChunkFlags_NoEnd(j) ==
  IF j = 0 THEN CHUNK_START
  ELSE IF j = BLOCKS_PER_CHUNK THEN CHUNK_END
  ELSE 0

\* lines 340-346: the flag word of block j of a chunk
ChunkFlags(j) ==
  IF j = 0 THEN CHUNK_START
  ELSE IF j = BLOCKS_PER_CHUNK - 1 THEN CHUNK_END
  ELSE 0

\* lines 325-346: the k-th word (0-based) written to i_pipe0 for block j of
\* chunk i with input chaining value cv
StateWord(cv, i, j, k) ==
  IF k < 8 THEN cv[k + 1]
  ELSE IF k < 12 THEN IV[k - 7]
  ELSE IF k = 12 THEN CounterLow(i)
  ELSE IF k = 13 THEN CounterHigh(i)
  ELSE IF k = 14 THEN W16(BLOCK_LEN)
  ELSE W16(ChunkFlags(j))

\* lines 313-322: ptr0 = i_ptr + (i << 10) + (j << 6), and the k-th message
\* word is word_from_le_bytes(ptr0 + (k << 2))
BlockOffset(i, j) == i * CHUNK_LEN + j * BLOCK_LEN
LoadWord(inp, off) ==
  word_from_le_bytes(<<inp[off + 1], inp[off + 2], inp[off + 3], inp[off + 4]>>)
LoadBlock(inp, i, j) ==
  [k \in 1..MSG_WORDS |-> LoadWord(inp, BlockOffset(i, j) + (k - 1) * 4)]

\* a slip at the head of the chunk loop: cv0 is not set back to IV
OrchChunk_KeepsCV ==
  /\ oPc = "chunk"
  /\ IF o_i < chunk_count
       THEN oPc' = "load" /\ cv0' = cv0 /\ o_j' = 0
       ELSE oPc' = "halt" /\ UNCHANGED <<cv0, o_j>>
  /\ UNCHANGED <<hostVars, mem, o_i, o_k, msg, mem_idx,
                 compVars, pipeVars, histVars>>

\* lines 282-304: the head of the chunk loop, and cv0 = IV
OrchChunk ==
  /\ oPc = "chunk"
  /\ IF o_i < chunk_count
       THEN oPc' = "load" /\ cv0' = IV /\ o_j' = 0
       ELSE oPc' = "halt" /\ UNCHANGED <<cv0, o_j>>
  /\ UNCHANGED <<hostVars, mem, o_i, o_k, msg, mem_idx,
                 compVars, pipeVars, histVars>>

\* a slip that stores through ptr0 while reading the block
OrchLoadMsg_Clobbers ==
  /\ oPc = "load"
  /\ msg' = LoadBlock(input, o_i, o_j)
  /\ input' = [input EXCEPT ![BlockOffset(o_i, o_j) + 1] = 0]
  /\ oPc' = "wstate" /\ o_k' = 0
  /\ UNCHANGED <<NDEBUG, hostPc, i_size, chunk_count, digest, memSt,
                 mem, o_i, o_j, cv0, mem_idx,
                 compVars, pipeVars, histVars>>

\* lines 311-322: the burst read of one 64-byte block into msg
OrchLoadMsg ==
  /\ oPc = "load"
  /\ msg' = LoadBlock(input, o_i, o_j)
  /\ oPc' = "wstate" /\ o_k' = 0
  /\ UNCHANGED <<hostVars, mem, o_i, o_j, cv0, mem_idx,
                 compVars, pipeVars, histVars>>

\* lines 325-346: one blocking i_pipe0::write
OrchWriteState ==
  /\ oPc = "wstate"
  /\ Len(i_pipe0) < I_PIPE0_CAP
  /\ i_pipe0' = Append(i_pipe0, StateWord(cv0, o_i, o_j, o_k))
  /\ hist0' = Append(hist0, StateWord(cv0, o_i, o_j, o_k))
  /\ IF o_k + 1 < 16
       THEN o_k' = o_k + 1 /\ oPc' = oPc
       ELSE o_k' = 0 /\ oPc' = "wmsg"
  /\ UNCHANGED <<hostVars, mem, o_i, o_j, cv0, msg, mem_idx,
                 compVars, i_pipe1, o_pipe0,
                 hist1, histRead,
                 compLog, digestWrites, digest0, histOut, memLog,
                 iter, prevDigest>>

\* a slip in the sequencing: after the 16th message word the orchestrator
\* goes on to the next request without reading the response
OrchWriteMsg_NoWait ==
  /\ oPc = "wmsg"
  /\ Len(i_pipe1) < I_PIPE1_CAP
  /\ i_pipe1' = Append(i_pipe1, msg[o_k + 1])
  /\ hist1' = Append(hist1, msg[o_k + 1])
  /\ IF o_k + 1 < MSG_WORDS
       THEN o_k' = o_k + 1 /\ oPc' = oPc
       ELSE o_k' = 0 /\ oPc' = "load"
  /\ UNCHANGED <<hostVars, mem, o_i, o_j, cv0, msg, mem_idx,
                 compVars, i_pipe0, o_pipe0,
                 hist0, histRead,
                 compLog, digestWrites, digest0, histOut, memLog,
                 iter, prevDigest>>

\* a slip in the count: only 15 of the 16 message words are sent
OrchWriteMsg_Short ==
  /\ oPc = "wmsg"
  /\ Len(i_pipe1) < I_PIPE1_CAP
  /\ i_pipe1' = Append(i_pipe1, msg[o_k + 1])
  /\ hist1' = Append(hist1, msg[o_k + 1])
  /\ IF o_k + 1 < MSG_WORDS - 1
       THEN o_k' = o_k + 1 /\ oPc' = oPc
       ELSE o_k' = 0 /\ oPc' = "rcv"
  /\ UNCHANGED <<hostVars, mem, o_i, o_j, cv0, msg, mem_idx,
                 compVars, i_pipe0, o_pipe0,
                 hist0, histRead,
                 compLog, digestWrites, digest0, histOut, memLog,
                 iter, prevDigest>>

\* lines 349-364: one blocking i_pipe1::write
OrchWriteMsg ==
  /\ oPc = "wmsg"
  /\ Len(i_pipe1) < I_PIPE1_CAP
  /\ i_pipe1' = Append(i_pipe1, msg[o_k + 1])
  /\ hist1' = Append(hist1, msg[o_k + 1])
  /\ IF o_k + 1 < MSG_WORDS
       THEN o_k' = o_k + 1 /\ oPc' = oPc
       ELSE o_k' = 0 /\ oPc' = "rcv"
  /\ UNCHANGED <<hostVars, mem, o_i, o_j, cv0, msg, mem_idx,
                 compVars, i_pipe0, o_pipe0,
                 hist0, histRead,
                 compLog, digestWrites, digest0, histOut, memLog,
                 iter, prevDigest>>

\* a slip in the index: the words read go to cv0[7], cv0[6], ..., cv0[0]
OrchReadCV_Reversed ==
  /\ oPc = "rcv"
  /\ o_pipe0 # <<>>
  /\ cv0' = [cv0 EXCEPT ![CV_WORDS - o_k] = Head(o_pipe0)]
  /\ histRead' = Append(histRead, Head(o_pipe0))
  /\ o_pipe0' = Tail(o_pipe0)
  /\ IF o_k + 1 < CV_WORDS
       THEN o_k' = o_k + 1 /\ oPc' = oPc /\ o_j' = o_j
       ELSE /\ o_k' = 0
            /\ o_j' = o_j + 1
            /\ oPc' = IF o_j + 1 < BLOCKS_PER_CHUNK THEN "load" ELSE "store"
  /\ UNCHANGED <<hostVars, mem, o_i, msg, mem_idx,
                 compVars, i_pipe0, i_pipe1,
                 hist0, hist1,
                 compLog, digestWrites, digest0, histOut, memLog,
                 iter, prevDigest>>

\* lines 410-417 and the end of the block loop: one blocking o_pipe0::read
OrchReadCV ==
  /\ oPc = "rcv"
  /\ o_pipe0 # <<>>
  /\ cv0' = [cv0 EXCEPT ![o_k + 1] = Head(o_pipe0)]
  /\ histRead' = Append(histRead, Head(o_pipe0))
  /\ o_pipe0' = Tail(o_pipe0)
  /\ IF o_k + 1 < CV_WORDS
       THEN o_k' = o_k + 1 /\ oPc' = oPc /\ o_j' = o_j
       ELSE /\ o_k' = 0
            /\ o_j' = o_j + 1
            /\ oPc' = IF o_j + 1 < BLOCKS_PER_CHUNK THEN "load" ELSE "store"
  /\ UNCHANGED <<hostVars, mem, o_i, msg, mem_idx,
                 compVars, i_pipe0, i_pipe1,
                 hist0, hist1,
                 compLog, digestWrites, digest0, histOut, memLog,
                 iter, prevDigest>>

\* a slip in the address: mem_idx is not scaled by the 8 words of a slot
StoreCV_NoShift(m, idx, cv) ==
  [x \in 1..Len(m) |->
     IF x - 1 >= idx /\ x - 1 < idx + CV_WORDS
       THEN cv[x - idx]
       ELSE m[x]]

\* lines 429-432: mem_ptr[(mem_idx << 3) + j] = cv0[j], j = 0..7
StoreCV(m, idx, cv) ==
  [x \in 1..Len(m) |->
     IF x - 1 >= idx * 8 /\ x - 1 < idx * 8 + CV_WORDS
       THEN cv[x - idx * 8]
       ELSE m[x]]

\* a slip left from the two-chunks-at-a-time layout: mem_idx moves forward by
\* two places
OrchStoreCV_SkipsSlot ==
  /\ oPc = "store"
  /\ \E faults \in BOOLEAN :
       IF memSt = "ok"
         THEN /\ mem' = StoreCV(mem, mem_idx, cv0)
              /\ memLog' = Append(memLog, <<mem_idx, Len(hist0)>>)
              /\ mem_idx' = mem_idx + 2 /\ o_i' = o_i + 1 /\ oPc' = "chunk"
         ELSE IF faults
           THEN oPc' = "fault" /\ UNCHANGED <<mem, memLog, mem_idx, o_i>>
           ELSE /\ mem_idx' = mem_idx + 2 /\ o_i' = o_i + 1 /\ oPc' = "chunk"
                /\ UNCHANGED <<mem, memLog>>
  /\ UNCHANGED <<hostVars, o_j, o_k, cv0, msg,
                 compVars, pipeVars,
                 hist0, hist1, histRead,
                 compLog, digestWrites, digest0, histOut,
                 iter, prevDigest>>

\* lines 428-437: the chunk's chaining value goes to the scratch memory.
\* Through a null mem the store is undefined: the kernel faults, or the words
\* land outside the scratch memory and the kernel carries on.
OrchStoreCV ==
  /\ oPc = "store"
  /\ \E faults \in BOOLEAN :
       IF memSt = "ok"
         THEN /\ mem' = StoreCV(mem, mem_idx, cv0)
              /\ memLog' = Append(memLog, <<mem_idx, Len(hist0)>>)
              /\ mem_idx' = mem_idx + 1 /\ o_i' = o_i + 1 /\ oPc' = "chunk"
         ELSE IF faults
           THEN oPc' = "fault" /\ UNCHANGED <<mem, memLog, mem_idx, o_i>>
           ELSE /\ mem_idx' = mem_idx + 1 /\ o_i' = o_i + 1 /\ oPc' = "chunk"
                /\ UNCHANGED <<mem, memLog>>
  /\ UNCHANGED <<hostVars, o_j, o_k, cv0, msg,
                 compVars, pipeVars,
                 hist0, hist1, histRead,
                 compLog, digestWrites, digest0, histOut,
                 iter, prevDigest>>

(***************************************************************************)
(* kernelBlake3Compressor                                                  *)
(***************************************************************************)
\* a slip in the row index: the first four words go to state[3], the last
\* four to state[0]
CompReadState_RowsReversed ==
  /\ cPc = "rstate"
  /\ i_pipe0 # <<>>
  /\ i_pipe0' = Tail(i_pipe0)
  /\ abcd' = [abcd EXCEPT ![(c_k % ROW_WORDS) + 1] = Head(i_pipe0)]
  /\ state' = IF c_k % ROW_WORDS = ROW_WORDS - 1
                THEN [state EXCEPT ![4 - (c_k \div ROW_WORDS)] =
                        <<abcd[1], abcd[2], abcd[3], Head(i_pipe0)>>]
                ELSE state
  /\ IF c_k + 1 < 16
       THEN c_k' = c_k + 1 /\ cPc' = cPc
       ELSE c_k' = 0 /\ cPc' = "rmsg"
  /\ UNCHANGED <<hostVars, mem, orchVars, rounds, c_i, c_msg,
                 i_pipe1, o_pipe0, histVars>>

\* lines 677-703: one blocking i_pipe0::read into a, b, c or d; after d the
\* row is assembled
CompReadState ==
  /\ cPc = "rstate"
  /\ i_pipe0 # <<>>
  /\ i_pipe0' = Tail(i_pipe0)
  /\ abcd' = [abcd EXCEPT ![(c_k % ROW_WORDS) + 1] = Head(i_pipe0)]
  /\ state' = IF c_k % ROW_WORDS = ROW_WORDS - 1
                THEN [state EXCEPT ![(c_k \div ROW_WORDS) + 1] =
                        <<abcd[1], abcd[2], abcd[3], Head(i_pipe0)>>]
                ELSE state
  /\ IF c_k + 1 < 16
       THEN c_k' = c_k + 1 /\ cPc' = cPc
       ELSE c_k' = 0 /\ cPc' = "rmsg"
  /\ UNCHANGED <<hostVars, mem, orchVars, rounds, c_i, c_msg,
                 i_pipe1, o_pipe0, histVars>>

\* lines 706-721: one blocking i_pipe1::read
CompReadMsg ==
  /\ cPc = "rmsg"
  /\ i_pipe1 # <<>>
  /\ i_pipe1' = Tail(i_pipe1)
  /\ c_msg' = [c_msg EXCEPT ![c_k + 1] = Head(i_pipe1)]
  /\ IF c_k + 1 < MSG_WORDS
       THEN c_k' = c_k + 1 /\ cPc' = cPc
       ELSE c_k' = 0 /\ cPc' = "compress"
  /\ UNCHANGED <<hostVars, mem, orchVars, rounds, c_i, abcd, state,
                 i_pipe0, o_pipe0, histVars>>

\* line 726: compress(state, msg)
CompCompress ==
  /\ cPc = "compress"
  /\ \E r \in {compress(state, c_msg)} :
       state' = r[1] /\ c_msg' = r[2]
  /\ compLog' = Append(compLog, <<state, c_msg>>)
  /\ cPc' = "wcv"
  /\ UNCHANGED <<hostVars, mem, orchVars, rounds, c_i, c_k, abcd, pipeVars,
                 hist0, hist1, histRead,
                 digestWrites, digest0, histOut, memLog,
                 iter, prevDigest>>

\* a slip in the order of the writes: x of both rows first, then y, ...
OutWord_Transposed(st, k) == st[(k % 2) + 1][(k \div 2) + 1]

\* lines 730-737: the k-th word (0-based) written to o_pipe0, state[0].x(),
\* .y(), .z(), .w(), then state[1].x() ...
OutWord(st, k) == st[(k \div ROW_WORDS) + 1][(k % ROW_WORDS) + 1]

\* lines 730-737 and the end of the loop: one blocking o_pipe0::write
CompWriteCV ==
  /\ cPc = "wcv"
  /\ Len(o_pipe0) < O_PIPE0_CAP
  /\ o_pipe0' = Append(o_pipe0, OutWord(state, c_k))
  /\ histOut' = Append(histOut, OutWord(state, c_k))
  /\ IF c_k + 1 < CV_WORDS
       THEN c_k' = c_k + 1 /\ cPc' = cPc /\ c_i' = c_i
       ELSE /\ c_k' = 0
            /\ c_i' = c_i + 1
            /\ cPc' = IF c_i + 1 < rounds THEN "rstate" ELSE "halt"
  /\ UNCHANGED <<hostVars, mem, orchVars, rounds, abcd, state, c_msg,
                 i_pipe0, i_pipe1,
                 hist0, hist1, histRead,
                 compLog, digestWrites, digest0, memLog,
                 iter, prevDigest>>

(***************************************************************************)
(* The specifications                                                      *)
(***************************************************************************)
Next ==
  \/ HostAssert \/ HostAlloc \/ HostSubmitOrchestrator \/ HostSubmitCompressor
  \/ HostWaitFree \/ HostCrash
  \/ OrchChunk \/ OrchLoadMsg \/ OrchWriteState \/ OrchWriteMsg
  \/ OrchReadCV \/ OrchStoreCV
  \/ CompReadState \/ CompReadMsg \/ CompCompress \/ CompWriteCV

Spec == Init /\ [][Next]_vars

\* the test program's call
SpecTest == InitTest /\ [][Next]_vars

\* the steps of the host, of the orchestrator kernel and of the compressor
\* kernel
HostNext ==
  \/ HostAssert \/ HostAlloc \/ HostSubmitOrchestrator \/ HostSubmitCompressor
  \/ HostWaitFree \/ HostCrash
OrchNext ==
  \/ OrchChunk \/ OrchLoadMsg \/ OrchWriteState \/ OrchWriteMsg
  \/ OrchReadCV \/ OrchStoreCV
\* the compressor's steps on the pipes; its fourth step, CompCompress, needs
\* no pipe and can be taken exactly when cPc = "compress"
CompPipeNext == CompReadState \/ CompReadMsg \/ CompWriteCV

\* the test's call as it is made (input all 0xFF)
InitLive == InitWith({FALSE}, TestCalls, {0}, {170})

\* the host thread and the two kernels each go on whenever they can: the two
\* kernels are separate circuits that run at the same time (single_task,
\* lines 258 and 662), and a blocking pipe read or write ends as soon as the
\* pipe has a word or room
\* (weak fairness of CompCompress is written out, with cPc = "compress" for
\* ENABLED <<CompCompress>>_vars)
SpecLive ==
  /\ InitLive /\ [][Next]_vars
  /\ WF_vars(HostNext) /\ WF_vars(OrchNext) /\ WF_vars(CompPipeNext)
  /\ ([]<>(cPc # "compress") \/ []<><<CompCompress>>_vars)

\* one call on the benchmark's second input size
SpecTree == InitTree /\ [][Next]_vars

\* utils.hpp lines 25-60: the next iteration of the benchmark's loop; the
\* digest of the iteration before was copied to the host (line 48), and fresh
\* input and digest buffers are allocated (lines 29-37); the kernels are
\* submitted anew, the pipes are what the run before left
BenchIter ==
  /\ hostPc = "done"
  /\ iter + 1 < MaxIter
  /\ iter' = iter + 1
  /\ prevDigest' = digest
  /\ digest' \in { DigestOf(f) : f \in DigestFills }
  /\ digest0' = digest'
  /\ hostPc' = "entry"
  /\ memSt' = "none" /\ mem' = <<>>
  /\ oPc' = "idle" /\ o_i' = 0 /\ o_j' = 0 /\ o_k' = 0
  /\ cv0' = Words(CV_WORDS) /\ msg' = Words(MSG_WORDS) /\ mem_idx' = 0
  /\ cPc' = "idle" /\ rounds' = 0 /\ c_i' = 0 /\ c_k' = 0
  /\ abcd' = Words(ROW_WORDS)
  /\ state' = [r \in 1..4 |-> Words(ROW_WORDS)]
  /\ c_msg' = Words(MSG_WORDS)
  /\ hist0' = <<>> /\ compLog' = <<>> /\ digestWrites' = 0
  /\ histOut' = <<>> /\ memLog' = <<>>
  /\ hist1' = <<>> /\ histRead' = <<>>
  /\ UNCHANGED <<NDEBUG, input, i_size, chunk_count, pipeVars>>

NextBench == Next \/ BenchIter

SpecBench == InitBench /\ [][NextBench]_vars

(***************************************************************************)
(* The computation the kernels are to carry out, compress called inline    *)
(***************************************************************************)
\* sixteen words as the four rows of the hash state, row-major
RowsOf(ws) ==
  << <<ws[1], ws[2], ws[3], ws[4]>>, <<ws[5], ws[6], ws[7], ws[8]>>,
     <<ws[9], ws[10], ws[11], ws[12]>>, <<ws[13], ws[14], ws[15], ws[16]>> >>

\* the output chaining value: the first two rows of the state
CvOf(st) ==
  <<st[1][1], st[1][2], st[1][3], st[1][4],
    st[2][1], st[2][2], st[2][3], st[2][4]>>

\* the request the orchestrator's program makes for block j of chunk i when
\* its cv0 is cv: the state words of lines 325-346 and the block of lines
\* 319-322
SeqRequest(inp, cv, i, j) ==
  << RowsOf([k \in 1..16 |-> StateWord(cv, i, j, k - 1)]), LoadBlock(inp, i, j) >>

SeqStep(inp, i, j, p) ==
  LET rq == SeqRequest(inp, p[2], i, j)
  IN  << Append(p[1], rq), CvOf(compress(rq[1], rq[2])[1]) >>

\* <<the first n requests of chunk i, cv0 after them>>
RECURSIVE SeqChunk(_, _, _)
SeqChunk(inp, i, n) ==
  IF n = 0 THEN << <<>>, IV >>
  ELSE CHOOSE r \in { SeqStep(inp, i, n - 1, p) :
                      p \in { SeqChunk(inp, i, n - 1) } } : TRUE

\* the k-th request (0-based) of the run, and the chaining value of chunk i
SeqRequestAt(inp, k) ==
  SeqChunk(inp, k \div BLOCKS_PER_CHUNK, (k % BLOCKS_PER_CHUNK) + 1)[1]
    [(k % BLOCKS_PER_CHUNK) + 1]
SeqLeaf(inp, i) == SeqChunk(inp, i, BLOCKS_PER_CHUNK)[2]

(***************************************************************************)
(* BLAKE3 of an input of N chunks, N a power of two, N >= 2                *)
(* (the digest hash is to produce)                                         *)
(***************************************************************************)
\* the 16-word state a compression starts from
RefState(cv, counter, blen, flags) ==
  RowsOf(<<cv[1], cv[2], cv[3], cv[4], cv[5], cv[6], cv[7], cv[8],
           IV[1], IV[2], IV[3], IV[4],
           W((counter \div HALF) % HALF, counter % HALF), W16(0),
           W16(blen), W16(flags)>>)

RefCompress(cv, block, counter, blen, flags) ==
  CvOf(compress(RefState(cv, counter, blen, flags), block)[1])

RefBlock(inp, off) ==
  [k \in 1..16 |->
     word_from_le_bytes(<<inp[off + 4 * k - 3], inp[off + 4 * k - 2],
                          inp[off + 4 * k - 1], inp[off + 4 * k]>>)]

RefFlags(j) ==
  (IF j = 0 THEN CHUNK_START ELSE 0) + (IF j = 15 THEN CHUNK_END ELSE 0)

\* the chaining value of chunk i after its first n blocks
RECURSIVE RefChunk(_, _, _)
RefChunk(inp, i, n) ==
  IF n = 0 THEN IV
  ELSE CHOOSE r \in
         { RefCompress(cv, RefBlock(inp, 1024 * i + 64 * (n - 1)), i, 64,
                       RefFlags(n - 1)) :
           cv \in { RefChunk(inp, i, n - 1) } } : TRUE

RefParent(l, r, flags) ==
  CHOOSE v \in { RefCompress(IV, l \o r, 0, 64, flags) } : TRUE

\* the chaining value of the subtree over chunks lo .. lo + n - 1
RECURSIVE RefSubtree(_, _, _)
RefSubtree(inp, lo, n) ==
  IF n = 1 THEN RefChunk(inp, lo, 16)
  ELSE CHOOSE v \in
         { RefParent(l, r, PARENT) :
           l \in { RefSubtree(inp, lo, n \div 2) },
           r \in { RefSubtree(inp, lo + n \div 2, n \div 2) } } : TRUE

\* the i-th chaining value (0-based) of level r: level 0 is the leaves
RefLevel(inp, r, i) == RefSubtree(inp, i * Pow2(r), Pow2(r))

\* the (state, block) pairs of parent pass r over n chunks, in order
RefParentPass(inp, r, n) ==
  [x \in 1..(n \div Pow2(r)) |->
     << RefState(IV, 0, 64, PARENT),
        RefLevel(inp, r - 1, 2 * (x - 1)) \o RefLevel(inp, r - 1, 2 * (x - 1) + 1) >>]

\* the (state, block) pairs of parent passes 1 .. r, in order
RECURSIVE RefParentPasses(_, _, _)
RefParentPasses(inp, r, n) ==
  IF r = 0 THEN <<>>
  ELSE RefParentPasses(inp, r - 1, n) \o RefParentPass(inp, r, n)

Blake3Digest(inp, n) ==
  words_to_le_bytes(
    CHOOSE v \in
      { RefParent(l, r, PARENT + ROOT) :
        l \in { RefSubtree(inp, 0, n \div 2) },
        r \in { RefSubtree(inp, n \div 2, n \div 2) } } : TRUE)

(***************************************************************************)
(* The scalar compression primitive (G, round), word by word and bit by    *)
(* bit                                                                     *)
(***************************************************************************)
\* the 32 bits of a word, bit 0 the least significant
ToBits(w) ==
  [k \in 0..31 |-> IF k < 16 THEN (w[2] \div Pow2(k)) % 2
                              ELSE (w[1] \div Pow2(k - 16)) % 2]

RECURSIVE SumBits(_, _, _)
SumBits(b, lo, hi) == IF lo > hi THEN 0 ELSE b[lo] + 2 * SumBits(b, lo + 1, hi)

FromBits(b) == <<SumBits(b, 16, 31), SumBits(b, 0, 15)>>

\* rotr(w, n) = (w >> n) | (w << (32 - n)): bit k of the result is bit
\* (k + n) mod 32 of w
rotr(w, n) ==
  CHOOSE r \in { FromBits([k \in 0..31 |-> b[(k + n) % 32]]) :
                 b \in { ToBits(w) } } : TRUE

\* bits k .. 31 of a + b with carry cin into bit k; the carry out of bit 31
\* is dropped (unsigned 32-bit wrapping addition)
RECURSIVE AddFrom(_, _, _, _)
AddFrom(a, b, k, cin) ==
  IF k = 32 THEN <<>>
  ELSE <<(a[k] + b[k] + cin) % 2>> \o AddFrom(a, b, k + 1, (a[k] + b[k] + cin) \div 2)

add32(x, y) ==
  CHOOSE r \in { <<SumBits(z, 17, 32), SumBits(z, 1, 16)>> :
                 z \in { AddFrom(ToBits(x), ToBits(y), 0, 0) } } : TRUE

\* G(state, a, b, c, d, mx, my) on a state of 16 words; a, b, c, d are
\* 0-based
G(s, a, b, c, d, mx, my) ==
  LET a1 == add32(add32(s[a + 1], s[b + 1]), mx)
      d1 == rotr(WXor(s[d + 1], a1), 16)
      c1 == add32(s[c + 1], d1)
      b1 == rotr(WXor(s[b + 1], c1), 12)
      a2 == add32(add32(a1, b1), my)
      d2 == rotr(WXor(d1, a2), 8)
      c2 == add32(c1, d2)
      b2 == rotr(WXor(b1, c2), 7)
  IN  [s EXCEPT ![a + 1] = a2, ![b + 1] = b2, ![c + 1] = c2, ![d + 1] = d2]

\* the state words of the eight G invocations of a round, in order: four
\* columns, then four diagonals
G_INDEX ==
  << <<0, 4, 8, 12>>, <<1, 5, 9, 13>>, <<2, 6, 10, 14>>, <<3, 7, 11, 15>>,
     <<0, 5, 10, 15>>, <<1, 6, 11, 12>>, <<2, 7, 8, 13>>, <<3, 4, 9, 14>> >>

\* the state after the first n G invocations of round(s, m)
RECURSIVE GSeq(_, _, _)
GSeq(s, m, n) ==
  IF n = 0 THEN s
  ELSE CHOOSE r \in
         { G(p, G_INDEX[n][1], G_INDEX[n][2], G_INDEX[n][3], G_INDEX[n][4],
             m[2 * n - 1], m[2 * n]) :
           p \in { GSeq(s, m, n - 1) } } : TRUE

\* round(state, msg): s is the 16 words of the state, m the 16 message words
round(s, m) == GSeq(s, m, 8)

\* the four rows of the hash state as 16 words, row-major
Flat(st) == st[1] \o st[2] \o st[3] \o st[4]

\* step 2 of compress: the 16 state words and the block after rounds
\* i = 0 .. n-1, the block permuted after round i when i < 6
RefRoundStep(p, i) ==
  << round(p[1], p[2]),
     IF i < 6 THEN [k \in 1..16 |-> p[2][MSG_PERMUTATION[k] + 1]] ELSE p[2] >>

RECURSIVE RefRounds(_, _, _)
RefRounds(s, m, n) ==
  IF n = 0 THEN <<s, m>>
  ELSE CHOOSE r \in { RefRoundStep(p, n - 1) :
                      p \in { RefRounds(s, m, n - 1) } } : TRUE

\* step 3 of compress: cv_out[i] = state[i] XOR state[i+8]
RefCvOut(s) == [i \in 1..8 |-> WXor(s[i], s[i + 8])]

(***************************************************************************)
(* rnd and permute taken alone, on the compressor's state and msg          *)
(***************************************************************************)
\* hash states as the orchestrator sends them (first and last block of the
\* first two chunks)
SeedStates ==
  { RowsOf([k \in 1..16 |-> StateWord(IV, i, j, k - 1)]) :
      i \in {0, 1}, j \in {0, BLOCKS_PER_CHUNK - 1} }

\* message blocks: the words 0, 1, ..., 15, a block of the test's input, and
\* a block whose bytes all differ
SeedMsgs ==
  { [k \in 1..MSG_WORDS |-> W16(k - 1)],
    LoadBlock(InputOf(0, BLOCK_LEN), 0, 0),
    LoadBlock(InputOf(1, BLOCK_LEN), 0, 0) }

\* the compressor is inside compress (line 726) with some state and msg;
\* c_i counts the applications of rnd, c_k those of permute
InitRound ==
  /\ NDEBUG = FALSE /\ hostPc = "wait"
  /\ input = <<>> /\ i_size = 0 /\ chunk_count = 0
  /\ digest = DigestOf(0) /\ digest0 = digest
  /\ memSt = "ok" /\ mem = <<>>
  /\ oPc = "rcv" /\ o_i = 0 /\ o_j = 0 /\ o_k = 0
  /\ cv0 = IV /\ msg = Words(MSG_WORDS) /\ mem_idx = 0
  /\ cPc = "compress" /\ rounds = 0 /\ c_i = 0 /\ c_k = 0
  /\ abcd = Words(ROW_WORDS)
  /\ state \in SeedStates
  /\ c_msg \in SeedMsgs
  /\ i_pipe0 = <<>> /\ i_pipe1 = <<>> /\ o_pipe0 = <<>>
  /\ hist0 = <<>> /\ compLog = <<>> /\ digestWrites = 0
  /\ histOut = <<>> /\ memLog = <<>>
  /\ hist1 = <<>> /\ histRead = <<>>
  /\ iter = 0 /\ prevDigest = <<>>

\* lines 145-170: rnd(state, msg_words)
ApplyRnd ==
  /\ cPc = "compress"
  /\ c_i < MaxApply
  /\ state' = rnd(state, c_msg)
  /\ c_i' = c_i + 1
  /\ UNCHANGED <<hostVars, mem, orchVars, cPc, rounds, c_k, abcd, c_msg,
                 pipeVars, histVars>>

\* lines 146-166: permute(msg_words)
ApplyPermute ==
  /\ cPc = "compress"
  /\ c_k < MaxApply
  /\ c_msg' = permute(c_msg)
  /\ c_k' = c_k + 1
  /\ UNCHANGED <<hostVars, mem, orchVars, cPc, rounds, c_i, abcd, state,
                 pipeVars, histVars>>

NextRound == ApplyRnd \/ ApplyPermute

SpecRound == InitRound /\ [][NextRound]_vars

(***************************************************************************)
(* The word codec taken alone, on the digest bytes and the words of cv0    *)
(***************************************************************************)
\* cv_from_le_bytes(b): eight applications of word_from_le_bytes
cv_from_le_bytes(b) ==
  [i \in 1..CV_WORDS |->
     word_from_le_bytes(<<b[4 * i - 3], b[4 * i - 2], b[4 * i - 1], b[4 * i]>>)]

\* 32-byte values: constant and stepping bytes, low and high
SeedBytes ==
  { [n \in 1..OUT_LEN |-> (a * n + c) % 256] :
      a \in {0, 1, 7, 37}, c \in {0, 128, 170, 255} }

\* 8-word values: IV, all bits clear, all bits set, and words that differ in
\* every byte
SeedWords ==
  { IV,
    [i \in 1..CV_WORDS |-> W(0, 0)],
    [i \in 1..CV_WORDS |-> W(65535, 65535)],
    [i \in 1..CV_WORDS |-> W(4660 * i, 65535 - 291 * i)] }

\* some 32 bytes in the digest buffer and some 8 words in cv0; o_j counts the
\* parses, o_k the serialisations
InitCodec ==
  /\ NDEBUG = FALSE /\ hostPc = "wait"
  /\ input = <<>> /\ i_size = 0 /\ chunk_count = 0
  /\ digest \in SeedBytes /\ digest0 = digest
  /\ memSt = "ok" /\ mem = <<>>
  /\ oPc = "halt" /\ o_i = 0 /\ o_j = 0 /\ o_k = 0
  /\ cv0 \in SeedWords /\ msg = Words(MSG_WORDS) /\ mem_idx = 0
  /\ cPc = "halt" /\ rounds = 0 /\ c_i = 0 /\ c_k = 0
  /\ abcd = Words(ROW_WORDS)
  /\ state = [r \in 1..4 |-> Words(ROW_WORDS)]
  /\ c_msg = Words(MSG_WORDS)
  /\ i_pipe0 = <<>> /\ i_pipe1 = <<>> /\ o_pipe0 = <<>>
  /\ hist0 = <<>> /\ compLog = <<>> /\ digestWrites = 0
  /\ histOut = <<>> /\ memLog = <<>>
  /\ hist1 = <<>> /\ histRead = <<>>
  /\ iter = 0 /\ prevDigest = <<>>

\* lines 188-194, eight times: the bytes are parsed into cv0
ApplyFromBytes ==
  /\ o_j < MaxApply
  /\ cv0' = cv_from_le_bytes(digest)
  /\ o_j' = o_j + 1
  /\ UNCHANGED <<hostVars, mem, oPc, o_i, o_k, msg, mem_idx,
                 compVars, pipeVars, histVars>>

\* lines 208-216: words_to_le_bytes(cv0, output)
ApplyToBytes ==
  /\ o_k < MaxApply
  /\ digest' = words_to_le_bytes(cv0)
  /\ o_k' = o_k + 1
  /\ UNCHANGED <<NDEBUG, hostPc, input, i_size, chunk_count, memSt, mem,
                 oPc, o_i, o_j, cv0, msg, mem_idx,
                 compVars, pipeVars, histVars>>

NextCodec == ApplyFromBytes \/ ApplyToBytes

SpecCodec == InitCodec /\ [][NextCodec]_vars

(***************************************************************************)
(* Properties                                                              *)
(***************************************************************************)
\* hash has returned from a call whose asserts hold and whose scratch
\* allocation succeeded
Succeeded == hostPc = "done" /\ AssertsHold /\ memSt = "freed"

\* the number of requests issued in full on i_pipe0, and the flag word of the
\* r-th of them (1-based)
RequestsSent == Len(hist0) \div 16
FlagsSent(r) == hist0[16 * r]

\* C1: when hash returns on a valid input, the digest buffer holds the BLAKE3
\* digest of the input (the little-endian bytes of the root chaining value).
C1_DigestIsBlake3 ==
  Succeeded => digest = Blake3Digest(input, chunk_count)

\* C2: in a successful run the digest buffer is written exactly once, and not
\* before the compressor has produced its last output.
C2_DigestWrittenOnce ==
  /\ Succeeded => digestWrites = 1
  /\ digestWrites > 0 => cPc = "halt"

\* C3: whenever one of the three preconditions fails, hash fails at entry:
\* nothing is allocated and no kernel is launched.
C3_InvalidInputRejected ==
  (hostPc # "entry" /\ ~AssertsHold) =>
    (hostPc = "aborted" /\ memSt = "none" /\ oPc = "idle" /\ cPc = "idle")

\* C4: on a failure path (invalid input, failed scratch allocation) nothing is
\* compressed and the digest buffer keeps the bytes the caller passed.
C4_NoWorkOnFailure ==
  ((hostPc # "entry" /\ ~AssertsHold) \/ memSt = "null") =>
    (compLog = <<>> /\ digest = digest0)

\* C5: when the scratch allocation fails, neither kernel is launched and no
\* word is written to a pipe.
C5_OutOfMemoryBeforeWork ==
  memSt = "null" =>
    (oPc = "idle" /\ cPc = "idle" /\ hist0 = <<>> /\ i_pipe1 = <<>>)

\* C6: over a successful run the parent passes and the root compression are
\* made (chunk_count - 1 requests after the 16 * chunk_count chunk requests),
\* and the last request, and only that one, carries the flags PARENT | ROOT.
C6_RootIsLastRequest ==
  Succeeded =>
    /\ RequestsSent = 16 * chunk_count + chunk_count - 1
    /\ FlagsSent(RequestsSent) = W16(PARENT + ROOT)
    /\ \A r \in 1..(RequestsSent - 1) : FlagsSent(r) # W16(PARENT + ROOT)

\* C7: the flag word sent for block j of a chunk is CHUNK_START for j = 0,
\* CHUNK_END for j = 15 and 0 otherwise.
C7_ChunkFlags ==
  \A r \in 1..RequestsSent :
    FlagsSent(r) = W16(IF (r - 1) % 16 = 0 THEN CHUNK_START
                       ELSE IF (r - 1) % 16 = 15 THEN CHUNK_END
                       ELSE 0)

\* all the blocks of all the chunks have been sent
C7_Witness ==
  oPc = "halt" /\ chunk_count >= 2 /\ RequestsSent = 16 * chunk_count

\* C8: a second call on the same valid input leaves the same bytes in the
\* digest buffer as the call before.
C8_Deterministic ==
  (Succeeded /\ iter >= 1) => digest = prevDigest

\* the requests of chunks 0 .. n - 1 with compress called inline
RECURSIVE SeqLog(_, _)
SeqLog(inp, n) ==
  IF n = 0 THEN <<>>
  ELSE SeqLog(inp, n - 1) \o SeqChunk(inp, n - 1, BLOCKS_PER_CHUNK)[1]

\* the scratch words of chunk i
Slot(m, i) == [x \in 1..CV_WORDS |-> m[CV_WORDS * i + x]]

\* C9: whatever the interleaving of the two kernels, each (state, msg) pair
\* the compressor compresses is the one the orchestrator's program makes at
\* that point with compress called inline, and so is each chaining value
\* stored in the scratch memory; at the end the whole sequence and the whole
\* scratch memory agree.
C9_SameAsInline ==
  /\ (cPc = "wcv" /\ c_k = 0) =>
       compLog[Len(compLog)] = SeqRequestAt(input, Len(compLog) - 1)
  /\ (oPc = "chunk" /\ o_i > 0 /\ memSt = "ok") =>
       Slot(mem, o_i - 1) = SeqLeaf(input, o_i - 1)
  /\ (oPc = "halt" /\ cPc = "halt" /\ hostPc = "wait") =>
       /\ compLog = SeqLog(input, chunk_count)
       /\ memSt = "ok" =>
            \A c \in 0..(chunk_count - 1) : Slot(mem, c) = SeqLeaf(input, c)

\* both kernels have finished a run over at least two chunks
C9_Witness ==
  /\ oPc = "halt" /\ cPc = "halt" /\ memSt = "ok"
  /\ chunk_count >= 2 /\ Len(compLog) = 16 * chunk_count

\* C10: no step of hash or of its kernels changes a byte of the input.
C10_InputReadOnly == [][input' = input]_vars

\* hash has returned after the kernels have read the whole input
C10_Witness ==
  hostPc = "done" /\ Len(compLog) = 16 * chunk_count /\ i_size > 0

\* C11: when the orchestrator's chunk loop has finished, slot i of the scratch
\* memory (words 8i .. 8i+7) holds compress_chunk of chunk i, the chaining
\* value obtained by folding its sixteen blocks in order, for every chunk i;
\* and each slot is written exactly once, slot i by the i-th store.
C11_LeafProduction ==
  /\ \A a \in 1..Len(memLog) : memLog[a][1] = a - 1
  /\ (oPc = "halt" /\ memSt = "ok") =>
       /\ Len(memLog) = chunk_count
       /\ \A c \in 0..(chunk_count - 1) :
            Slot(mem, c) = RefChunk(input, c, BLOCKS_PER_CHUNK)

\* the chunk loop has finished over at least two chunks and the scratch
\* memory is still allocated
C11_Witness ==
  /\ oPc = "halt" /\ memSt = "ok" /\ hostPc = "wait"
  /\ chunk_count >= 2 /\ Len(memLog) = chunk_count

\* the input chaining value words (at most 8) written so far for the r-th
\* request (0-based), and the 8 words the compressor wrote for the r-th
\* compression
CvSent(r) == SubSeq(hist0, 16 * r + 1,
                    IF Len(hist0) < 16 * r + CV_WORDS THEN Len(hist0)
                    ELSE 16 * r + CV_WORDS)
CvReceived(r) == SubSeq(histOut, CV_WORDS * r + 1, CV_WORDS * r + CV_WORDS)

\* C12: the request for block 0 of every chunk carries IV as input chaining
\* value, whatever the chunk before left; the request for block j >= 1
\* carries the 8 words the compressor put out for block j-1 of the same
\* chunk.
C12_ChainingThreaded ==
  \A r \in 0..((Len(hist0) - 1) \div 16) :
    IF r % BLOCKS_PER_CHUNK = 0
      THEN CvSent(r) = SubSeq(IV, 1, Len(CvSent(r)))
      ELSE /\ Len(histOut) >= CV_WORDS * r
           /\ CvSent(r) = SubSeq(CvReceived(r - 1), 1, Len(CvSent(r)))

\* the input chaining value of block 0 of the second chunk has been sent,
\* after the sixteen blocks of the first
C12_Witness ==
  Len(hist0) >= 16 * BLOCKS_PER_CHUNK + CV_WORDS /\ Len(histOut) >= CV_WORDS

\* both kernels have run to their end on a valid call and the scratch memory
\* is still allocated
KernelsDone ==
  oPc = "halt" /\ cPc = "halt" /\ memSt = "ok" /\ AssertsHold

\* C13: after the chunk pass the parent passes r = 1 .. log2(N) - 1 are made
\* (so the compressor is set up for at least 16N + N - 2 compressions):
\* pass r compresses, with input chaining value IV, counter 0, block length
\* 64 and flags PARENT, the blocks CV[2i] ++ CV[2i+1] of level r-1 in the
\* order i = 0, 1, ...; after the last pass the first two slots of the scratch
\* memory hold the two chaining values left for the root compression.
C13_ParentPasses ==
  /\ (cPc # "idle" /\ AssertsHold) =>
       rounds >= 16 * chunk_count + (chunk_count - 2)
  /\ KernelsDone =>
    /\ Len(compLog) >= 16 * chunk_count + (chunk_count - 2)
    /\ SubSeq(compLog, 16 * chunk_count + 1,
                       16 * chunk_count + (chunk_count - 2))
         = RefParentPasses(input, bin_log(chunk_count) - 1, chunk_count)
    /\ Slot(mem, 0) = RefLevel(input, bin_log(chunk_count) - 1, 0)
    /\ Slot(mem, 1) = RefLevel(input, bin_log(chunk_count) - 1, 1)

\* the number (1-based) of the request that compresses the leaves of chunks
\* 2i and 2i+1: the level-1 compressions follow the 16N chunk requests
ParentRequest(i) == 16 * chunk_count + i + 1

SentState(n) == SubSeq(hist0, 16 * (n - 1) + 1, 16 * n)

\* C15: the state the compressor assembles for its n-th compression is, row
\* by row, the 16 words of the n-th request in the order the orchestrator
\* wrote them; rows 0 and 1 are the input chaining value, row 2 is IV[0..4],
\* row 3 is (counter_low, counter_high, block_len, flags) with block_len = 64;
\* and the words in flight are the last words written, in the same order.
C15_StateLayout ==
  /\ Len(i_pipe0) <= Len(hist0)
  /\ i_pipe0 = SubSeq(hist0, Len(hist0) - Len(i_pipe0) + 1, Len(hist0))
  /\ \A n \in 1..Len(compLog) :
       LET st == compLog[n][1]
           c  == (n - 1) \div BLOCKS_PER_CHUNK
           j  == (n - 1) % BLOCKS_PER_CHUNK
       IN  /\ Len(hist0) >= 16 * n
           /\ st = RowsOf(SentState(n))
           /\ st[1] \o st[2] = (IF j = 0 THEN IV ELSE CvReceived(n - 2))
           /\ st[3] = SubSeq(IV, 1, 4)
           /\ st[4][1] = W16(c) /\ st[4][2] = W16(0)
           /\ st[4][3] = W16(64)
           /\ st[4][4] \in {W16(0), W16(CHUNK_START), W16(CHUNK_END)}

\* the compressor has assembled and compressed the state of a block of the
\* second chunk, whose counter is not 0
C15_Witness ==
  Len(compLog) > BLOCKS_PER_CHUNK + 1 /\ cPc = "wcv"

C18_RoundIsScalarRound ==
  [][ c_i' = c_i + 1 =>
        /\ Flat(state') = round(Flat(state), c_msg)
        /\ UnDiag(Diag(state')) = state' ]_vars

\* rnd has been applied more than once, to a message that was permuted
C18_Witness ==
  cPc = "compress" /\ c_i >= 2 /\ c_k >= 1 /\ hostPc = "wait"

\* the words rnd works on: those of the state
StateWords == { state[r][l] : r \in 1..4, l \in 1..ROW_WORDS }

\* C19: on every word of the state, the left rotation by rrot_16, rrot_12,
\* rrot_8, rrot_7 that rnd makes is the right rotation by 16, 12, 8, 7, that
\* is (w >> n) | (w << (32 - n)) modulo 2^32; and the addition rnd makes of
\* any two of these words is their sum modulo 2^32.
C19_RightRotations ==
  /\ \A w \in StateWords :
       /\ WRotl(w, rrot_16) = rotr(w, 16)
       /\ WRotl(w, rrot_12) = rotr(w, 12)
       /\ WRotl(w, rrot_8) = rotr(w, 8)
       /\ WRotl(w, rrot_7) = rotr(w, 7)
  /\ \A x \in StateWords, y \in StateWords : WAdd(x, y) = add32(x, y)

\* rnd has been applied, and two words of the state have a sum of 2^32 or
\* more, so that their addition wraps
C19_Witness ==
  /\ cPc = "compress" /\ c_i >= 1
  /\ \E x \in StateWords, y \in StateWords : x[1] + y[1] >= HALF

\* how many times the word w occurs among the 16 words of m
Occurrences(m, w) == Cardinality({ k \in 1..MSG_WORDS : m[k] = w })

\* C20: one application of permute leaves at index i the word that was at
\* index MSG_PERMUTATION[i] before the call, for all 16 indices; the words
\* 0, 1, ..., 15 become 2, 6, 3, 10, 7, 0, 4, 13, 1, 11, 12, 5, 9, 14, 15, 8;
\* and every word occurs after the call as often as before.
C20_Permute ==
  [][ c_k' = c_k + 1 =>
        /\ \A i \in 1..MSG_WORDS : c_msg'[i] = c_msg[MSG_PERMUTATION[i] + 1]
        /\ (c_msg = [k \in 1..MSG_WORDS |-> W16(k - 1)]) =>
             c_msg' = << W16(2), W16(6), W16(3), W16(10), W16(7), W16(0),
                         W16(4), W16(13), W16(1), W16(11), W16(12), W16(5),
                         W16(9), W16(14), W16(15), W16(8) >>
        /\ \A k \in 1..MSG_WORDS :
             Occurrences(c_msg', c_msg[k]) = Occurrences(c_msg, c_msg[k]) ]_vars

\* permute has been applied twice to the words 0, 1, ..., 15
C20_Witness ==
  /\ cPc = "compress" /\ c_k = 2
  /\ c_msg = permute(permute([k \in 1..MSG_WORDS |-> W16(k - 1)]))

\* the last (state, msg) pair handed to compress
LastCompressed == compLog[Len(compLog)]

\* C17: compress leaves, in rows 0 and 1 of the state, the words
\* state[i] XOR state[i+8], i = 0..7, of the state after exactly 7 rounds,
\* the message words having been permuted after each of the first 6 rounds
\* and not after the 7th; and the compressor writes these 8 words to o_pipe0
\* in the order 0..7.
C17_SevenRounds ==
  /\ (cPc = "wcv" /\ c_k = 0) =>
       \A p \in { RefRounds(Flat(LastCompressed[1]), LastCompressed[2], 7) } :
         /\ CvOf(state) = RefCvOut(p[1])
         /\ c_msg = p[2]
  /\ cPc = "wcv" =>
       SubSeq(histOut, Len(histOut) - c_k + 1, Len(histOut))
         = SubSeq(CvOf(state), 1, c_k)
  /\ ((cPc = "rstate" /\ c_k < ROW_WORDS /\ c_i > 0) \/ cPc = "halt") =>
       SubSeq(histOut, Len(histOut) - CV_WORDS + 1, Len(histOut)) = CvOf(state)

\* the compressor has written the whole output of a compression of the
\* second chunk
C17_Witness ==
  cPc = "rstate" /\ c_k = 0 /\ c_i > BLOCKS_PER_CHUNK /\ Len(histOut) = CV_WORDS * c_i

\* C21: the 32 bytes of the digest buffer, parsed into eight words and
\* serialised with words_to_le_bytes, are the same 32 bytes; every word w of
\* cv0 satisfies word_from_le_bytes(word_to_le_bytes(w)) = w; and byte k of
\* word_to_le_bytes(w) is bits 8k .. 8k+7 of w.
C21_CodecRoundTrip ==
  /\ words_to_le_bytes(cv_from_le_bytes(digest)) = digest
  /\ \A i \in 1..CV_WORDS :
       /\ word_from_le_bytes(word_to_le_bytes(cv0[i])) = cv0[i]
       /\ \A k \in 0..3 :
            word_to_le_bytes(cv0[i])[k + 1]
              = SumBits(ToBits(cv0[i]), 8 * k, 8 * k + 7)

\* bytes that differ from one another have been parsed into cv0 and
\* serialised back
C21_Witness ==
  /\ o_j >= 1 /\ o_k >= 1
  /\ cv0 = cv_from_le_bytes(digest0) /\ digest = digest0
  /\ digest0[1] # digest0[2]

\* C22: the scratch memory is that of one call of hash: it is freed only by
\* the host, only when it was allocated and both kernels have ended, and hash
\* returns with that step; once freed it stays freed, and no kernel step and
\* no scratch word follows, until the next call starts with no scratch memory
\* at all; the scratch words change only while the memory is allocated; hash
\* has returned only when both kernels have ended.
C22_ScratchOwned ==
  [][ /\ (memSt' = "freed" /\ memSt # "freed") =>
           /\ memSt = "ok" /\ oPc = "halt" /\ cPc = "halt"
           /\ hostPc = "wait" /\ hostPc' = "done"
      /\ memSt = "freed" =>
           \/ memSt' = "freed" /\ UNCHANGED <<mem, orchVars, compVars, pipeVars>>
           \/ memSt' = "none" /\ hostPc' = "entry"
      /\ mem' # mem => (memSt' = "ok" \/ mem' = <<>>)
      /\ hostPc' = "done" =>
           /\ oPc' = "halt" /\ cPc' = "halt"
           /\ memSt' \in {"freed", "null"} /\ mem' = <<>>
      /\ hostPc' = "entry" =>
           memSt' = "none" /\ mem' = <<>> /\ memLog' = <<>> ]_vars

\* the second call of the benchmark has freed its scratch memory and returned
C22_Witness ==
  iter >= 1 /\ memSt = "freed" /\ hostPc = "done" /\ Len(memLog) = chunk_count

\* C23: on a valid call, when the orchestrator is about to read block j of
\* chunk i, every byte index 1024 i + 64 j + 4 k + b it reads (k in 0..15,
\* b in 0..3) lies in [0, 1024 N); when it is about to store a chaining
\* value, mem_idx is the chunk index i and every word index 8 mem_idx + j
\* (j in 0..7) lies in [0, 8 N), inside the scratch memory.
C23_InBounds ==
  /\ (oPc = "load" /\ AssertsHold) =>
       /\ BlockOffset(o_i, o_j) = 1024 * o_i + 64 * o_j
       /\ \A k \in 0..(MSG_WORDS - 1), b \in 0..3 :
            /\ BlockOffset(o_i, o_j) + 4 * k + b >= 0
            /\ BlockOffset(o_i, o_j) + 4 * k + b < 1024 * chunk_count
            /\ BlockOffset(o_i, o_j) + 4 * k + b < Len(input)
  /\ (oPc = "store" /\ AssertsHold) =>
       /\ mem_idx = o_i
       /\ \A j \in 0..(CV_WORDS - 1) :
            /\ 8 * mem_idx + j >= 0
            /\ 8 * mem_idx + j < 8 * chunk_count
            /\ memSt = "ok" => 8 * mem_idx + j < Len(mem)

\* the orchestrator is about to store the chaining value of the last chunk,
\* having read its last block
C23_Witness ==
  /\ oPc = "store" /\ memSt = "ok" /\ AssertsHold
  /\ chunk_count >= 2 /\ o_i = chunk_count - 1

\* C24: when the orchestrator has ended, the number of requests it has issued
\* is the number of iterations of the compressor's loop, chunk_count << 4;
\* when both kernels have ended, the compressor has compressed that many
\* requests and written 8 words for each, and i_pipe0, i_pipe1 and o_pipe0
\* are empty.
C24_PipesDrained ==
  /\ cPc # "idle" => rounds = chunk_count * 16
  /\ (oPc = "halt" /\ cPc # "idle") =>
       /\ Len(hist0) = 16 * RequestsSent
       /\ RequestsSent = rounds
  /\ (oPc = "halt" /\ cPc = "halt") =>
       /\ c_i = rounds /\ Len(compLog) = rounds
       /\ Len(histOut) = CV_WORDS * rounds
       /\ i_pipe0 = <<>> /\ i_pipe1 = <<>> /\ o_pipe0 = <<>>

\* both kernels have ended after a run over at least two chunks and the host
\* has not yet returned
C24_Witness ==
  /\ oPc = "halt" /\ cPc = "halt" /\ hostPc = "wait"
  /\ chunk_count >= 2 /\ Len(histOut) = CV_WORDS * 16 * chunk_count
  /\ i_pipe0 = <<>> /\ i_pipe1 = <<>> /\ o_pipe0 = <<>>

\* C25: with the scratch memory allocated, as long as hash waits for kernels
\* that have not both ended, the orchestrator or the compressor can take a
\* step (no blocked pipe read or write on both sides); and under fair
\* scheduling of the two kernels and the host, both kernels end and hash
\* returns.
C25_NoDeadlock ==
  /\ []((memSt = "ok" /\ hostPc = "wait" /\ ~(oPc = "halt" /\ cPc = "halt"))
          => (ENABLED OrchNext \/ ENABLED CompPipeNext \/ cPc = "compress"))
  /\ (memSt = "ok") ~> (oPc = "halt" /\ cPc = "halt")
  /\ (memSt = "ok") ~> (hostPc = "done")

\* the orchestrator is blocked on the empty o_pipe0 while the compressor
\* compresses the last block of the second chunk
C25_Witness ==
  /\ memSt = "ok" /\ hostPc = "wait"
  /\ oPc = "rcv" /\ o_pipe0 = <<>> /\ cPc = "compress"
  /\ o_i = 1 /\ o_j = BLOCKS_PER_CHUNK - 1


\* the 0-based number of the request that the last word of history h (16
\* words per request) belongs to
LastRequest(h) == (Len(h) - 1) \div 16

\* C26: at most one compression request is in flight: when a word of request
\* k+1 has been written to i_pipe0 or to i_pipe1, the orchestrator has read
\* all 8 words of the responses to the requests 1..k and the compressor has
\* put out no word beyond the response to request k+1; no write ever finds
\* its pipe full; and i_pipe0 and i_pipe1 never hold more than 16 words,
\* o_pipe0 never more than 8.
C26_OneInFlight ==
  /\ hist0 # <<>> =>
       /\ Len(histRead) >= CV_WORDS * LastRequest(hist0)
       /\ Len(histOut) <= CV_WORDS * (LastRequest(hist0) + 1)
  /\ hist1 # <<>> =>
       /\ Len(histRead) >= CV_WORDS * LastRequest(hist1)
       /\ Len(hist0) >= 16 * (LastRequest(hist1) + 1)
  /\ Len(hist0) - 2 * Len(histRead) <= 16
  /\ Len(hist1) - 2 * Len(histRead) <= 16
  /\ oPc = "wstate" => Len(i_pipe0) <= o_k
  /\ oPc = "wmsg" => Len(i_pipe1) <= o_k
  /\ cPc = "wcv" => Len(o_pipe0) <= c_k
  /\ Len(i_pipe0) <= I_PIPE0_CAP /\ Len(i_pipe1) <= I_PIPE1_CAP
  /\ Len(o_pipe0) <= O_PIPE0_CAP
  /\ I_PIPE0_CAP = 16 /\ I_PIPE1_CAP = 16 /\ O_PIPE0_CAP = 8

\* the whole of the second request is in the pipes, its response awaited, the
\* response to the first request read
C26_Witness ==
  /\ Len(i_pipe0) = 16 /\ Len(i_pipe1) = 16 /\ oPc = "rcv"
  /\ Len(hist0) = 2 * 16 /\ Len(hist1) = 2 * 16 /\ Len(histRead) = CV_WORDS


\* the 16 message words of the n-th request (n >= 1) as written to i_pipe1,
\* and the 8 words the orchestrator read as the n-th response
SentMsg(n) == SubSeq(hist1, 16 * (n - 1) + 1, 16 * n)
ReadResponse(n) == SubSeq(histRead, CV_WORDS * (n - 1) + 1, CV_WORDS * n)

\* C27: requests and responses stay aligned across the three pipes: the k-th
\* compression of the compressor takes the 16 state words and the 16 message
\* words of the orchestrator's k-th request; the words the orchestrator reads
\* are the words the compressor wrote, in the same order, those not yet read
\* being the ones in o_pipe0; and once the orchestrator has read the 8 words
\* after its k-th request (before the chunk loop sets cv0 back to IV), they
\* are, in cv0[0..7], the words 0..7 that compress puts out for the state and
\* the message of that request.
C27_Aligned ==
  /\ \A k \in 1..Len(compLog) :
       /\ Len(hist0) >= 16 * k /\ Len(hist1) >= 16 * k
       /\ compLog[k] = <<RowsOf(SentState(k)), SentMsg(k)>>
  /\ Len(histRead) <= Len(histOut)
  /\ histRead = SubSeq(histOut, 1, Len(histRead))
  /\ o_pipe0 = SubSeq(histOut, Len(histRead) + 1, Len(histOut))
  /\ Len(histOut) <= CV_WORDS * Len(compLog)
  /\ ((oPc = "load" /\ o_j >= 1) \/ oPc = "store") =>
       LET k == Len(histRead) \div CV_WORDS
       IN  /\ Len(histRead) = CV_WORDS * k
           /\ RequestsSent = k /\ Len(hist1) = 16 * k
           /\ cv0 = ReadResponse(k)
           /\ ReadResponse(k)
                = CvOf(compress(RowsOf(SentState(k)), SentMsg(k))[1])

\* the orchestrator has read the response to its second request and goes on
\* to the third
C27_Witness ==
  /\ oPc = "load" /\ Len(histRead) = 2 * CV_WORDS /\ Len(compLog) = 2
  /\ cv0 = ReadResponse(2) /\ ReadResponse(2) # ReadResponse(1)

=============================================================================
